---- MODULE Spec2Model ----
(***************************************************************************)
(* Model of main.py: the two-way bridge between a Google sheet and the     *)
(* amoCRM deal pipeline.  Strings are sequences of one-character strings,  *)
(* so trimming, digit tests and int <-> str conversions are computed.      *)
(* The sheet is the sequence of its rows, sheet[1] being the header, so    *)
(* that sheet row numbers are the indices the code computes (index + 2).   *)
(***************************************************************************)
EXTENDS Integers, Sequences, FiniteSets, TLC

VARIABLES
    sheet,      \* the spreadsheet: sheet[r] is sheet row r (row 1 = header)
    contacts,   \* CRM contacts, in creation order
    deals,      \* CRM deals (leads), in creation order
    nextId,     \* next id the CRM assigns
    push,       \* push[p]: the process_new_rows run of trigger instance p
    pull,       \* pull[p]: the sync_from_amocrm run of trigger instance p
    req,        \* one stand-alone amo_request call
    faults,     \* number of backend calls the environment may still make fail
    runs,       \* number of reconciler runs started so far
    made,       \* history: made[k] = snapshot index the k-th pushed deal was created for
    quiet,      \* history: TRUE iff the last sheet event was a push run completing
    settled,    \* history: TRUE iff the last event was a pull run completing
    phone       \* harness: a phone number and what normalize_phone makes of it

vars == <<sheet, contacts, deals, nextId, push, pull, req, faults, runs, made, quiet,
          settled, phone>>

(***************************** bounds **************************************)
MaxRows == 2        \* data rows of an initial sheet
MaxRuns == 2        \* reconciler runs started in one behaviour
MaxFaults == 2      \* backend calls that meet a failure in one behaviour
MaxSlots == 2       \* trigger instances that can exist side by side per trigger
PageCap == 2        \* deals the CRM returns in one page, when fewer than the limit
MaxDigits == 11     \* digits that follow the lead of a phone number typed in

(************************** program constants ******************************)
AMO_PIPELINE_ID == 8237934
AMO_STATUS_ID == 67260282
LastAttempt == 4            \* amo_request: if attempt == 4
max_instances == 1          \* scheduled_job(..., max_instances=1)
Limit == 50                 \* fetch_leads_with_contacts: "limit": 50
IdsChunk == 50              \* fetch_contacts_by_ids: range(0, len(ids), 50)
DefaultChunk == 100         \* commit_sheet_changes: chunk_size: int = 100
AppendChunk == 500          \* commit_sheet_changes: range(0, len(appends), 500)
LastCol == 6                \* the sheet's table spans the columns A..F
MaxRateRetries == 5         \* commit_sheet_changes: attempt < 5

(****************************** strings ************************************)
Digits == <<"0", "1", "2", "3", "4", "5", "6", "7", "8", "9">>

IsDigit(c) == \E i \in 1..10 : Digits[i] = c

DigitVal(c) == (CHOOSE i \in 1..10 : Digits[i] = c) - 1

\* str.isspace() of one character, for the characters of Latin-1
IsSpace(c) ==
    c \in {" ", "\t", "\n", "\r", "\f", "", "", "", "", "",
           "", " "}

RECURSIVE LStrip(_)
LStrip(s) == IF s # <<>> /\ IsSpace(Head(s)) THEN LStrip(Tail(s)) ELSE s

RECURSIVE RStrip(_)
RStrip(s) ==
    IF s # <<>> /\ IsSpace(s[Len(s)]) THEN RStrip(SubSeq(s, 1, Len(s) - 1)) ELSE s

\* str.strip()
Strip(s) == RStrip(LStrip(s))

\* the characters of Latin-1 that are digits to str.isdigit() and not to int()
Superscripts == {"¹", "²", "³"}

\* str.isdigit()
isdigit(s) == s # <<>> /\ \A i \in 1..Len(s) : IsDigit(s[i]) \/ s[i] \in Superscripts

\* the white space int() drops around a number: what str.strip() drops,
\* without the separators U+001C..U+001F
IsIntSpace(c) == IsSpace(c) /\ c \notin {"", "", "", ""}

RECURSIVE IntLStrip(_)
IntLStrip(s) == IF s # <<>> /\ IsIntSpace(Head(s)) THEN IntLStrip(Tail(s)) ELSE s

RECURSIVE IntRStrip(_)
IntRStrip(s) ==
    IF s # <<>> /\ IsIntSpace(s[Len(s)]) THEN IntRStrip(SubSeq(s, 1, Len(s) - 1)) ELSE s

\* int(s) raises ValueError: with the white space around it dropped, s is not
\* an optional sign and decimal digits, single underscores between digits
int_raises(s) ==
    LET t == IntRStrip(IntLStrip(s))
        b == IF t # <<>> /\ Head(t) \in {"+", "-"} THEN Tail(t) ELSE t
    IN  \/ b = <<>>
        \/ ~IsDigit(b[1])
        \/ ~IsDigit(b[Len(b)])
        \/ \E i \in 1..Len(b) : ~IsDigit(b[i]) /\ b[i] # "_"
        \/ \E i \in 1..(Len(b) - 1) : b[i] = "_" /\ b[i + 1] = "_"

\* str(n) for n >= 0
RECURSIVE Str(_)
Str(n) == IF n < 10 THEN <<Digits[n + 1]>>
          ELSE Str(n \div 10) \o <<Digits[(n % 10) + 1]>>

\* int(s) for a string of digits
RECURSIVE ToInt(_)
ToInt(s) == IF s = <<>> THEN 0
            ELSE 10 * ToInt(SubSeq(s, 1, Len(s) - 1)) + DigitVal(s[Len(s)])

\* re.sub(r"\D+", "", raw)
OnlyDigits(s) == SelectSeq(s, IsDigit)

normalize_phone_mut(raw) ==
    IF raw = <<>> THEN <<>>
    ELSE LET d0 == OnlyDigits(raw)
             d1 == IF d0 # <<>> /\ Head(d0) = "8" /\ Len(d0) = 11
                   THEN <<"7">> \o Tail(d0) ELSE d0
         IN  IF Len(d1) >= 10 THEN <<"7">> \o d1 ELSE d1

\* if not raw: return ""; d = re.sub(r"\D+", "", raw); a leading 8 of 11
\* digits becomes 7; 10 digits get a leading 7
normalize_phone(raw) ==
    IF raw = <<>> THEN <<>>
    ELSE LET d0 == OnlyDigits(raw)
             d1 == IF d0 # <<>> /\ Head(d0) = "8" /\ Len(d0) = 11
                   THEN <<"7">> \o Tail(d0) ELSE d0
         IN  IF Len(d1) = 10 THEN <<"7">> \o d1 ELSE d1

\* what parse_row is for a row it raises on
ValueError == [raises |-> "ValueError"]

\* int(row[3]) is taken when the stripped cell is all digits to str.isdigit()
parse_row(row) ==
    IF Len(row) > 3 /\ isdigit(Strip(row[4])) /\ int_raises(row[4])
    THEN ValueError
    ELSE
    [name    |-> IF Len(row) > 0 THEN Strip(row[1]) ELSE <<>>,
     phone   |-> IF Len(row) > 1 THEN Strip(row[2]) ELSE <<>>,
     email   |-> IF Len(row) > 2 THEN Strip(row[3]) ELSE <<>>,
     budget  |-> IF Len(row) > 3 /\ isdigit(Strip(row[4]))
                 THEN ToInt(Strip(row[4])) ELSE 0,
     deal_id |-> IF Len(row) > 4 THEN Strip(row[5]) ELSE <<>>]

(************************ the spreadsheet backend **************************)
Header == <<<<"n">>, <<"p">>, <<"e">>, <<"b">>, <<"d">>, <<"s">>>>

RECURSIVE TrimRow(_)
\* values.get leaves out the empty cells that end a row
TrimRow(row) ==
    IF row # <<>> /\ row[Len(row)] = <<>>
    THEN TrimRow(SubSeq(row, 1, Len(row) - 1)) ELSE row

RECURSIVE TrimRows(_)
\* values.get leaves out the empty rows that end the range
TrimRows(rows) ==
    IF rows # <<>> /\ rows[Len(rows)] = <<>>
    THEN TrimRows(SubSeq(rows, 1, Len(rows) - 1)) ELSE rows

\* the cells of a row in columns A..F, the empty ones at its end left out
AF(row) == TrimRow(SubSeq(row, 1, IF Len(row) < LastCol THEN Len(row) ELSE LastCol))

\* what a row holds right of the table, in column G: nothing the service
\* reads or writes
Tag(row) == IF Len(row) > LastCol THEN row[LastCol + 1] ELSE <<>>

\* read_rows / read_sheet_all: the values of SHEET_RANGE, which starts at row 2
\* and spans the columns A..F
read_rows(sh) ==
    TrimRows([i \in 1..(Len(sh) - 1) |-> AF(sh[i + 1])])

Pad(seq, n, fill) ==
    [i \in 1..(IF Len(seq) > n THEN Len(seq) ELSE n) |->
        IF i <= Len(seq) THEN seq[i] ELSE fill]

\* values.update of the single cell (r, c)
SetCell(sh, r, c, v) ==
    LET grown == Pad(sh, r, <<>>)
    IN  [grown EXCEPT ![r] = [Pad(grown[r], c, <<>>) EXCEPT ![c] = v]]

write_deal_id_mut(sh, row_index_zero_based, deal_id) ==
    SetCell(sh, row_index_zero_based + 1, 5, Str(deal_id))

write_deal_id_F(sh, row_index_zero_based, deal_id) ==
    SetCell(sh, row_index_zero_based + 2, 6, Str(deal_id))

\* write_deal_id: column E of sheet row index + 2
write_deal_id(sh, row_index_zero_based, deal_id) ==
    SetCell(sh, row_index_zero_based + 2, 5, Str(deal_id))

(**************************** the CRM backend ******************************)
\* what one HTTP attempt can end in: a transport error or a response status
Transport == [err |-> TRUE, status |-> 0]
Http(s) == [err |-> FALSE, status |-> s]

Is2xx(status) == 200 <= status /\ status < 300

\* Response.raise_for_status() raises
RaisesForStatus(status) == ~Is2xx(status)

amo_request_mut(attempt, o) ==
    IF o.err
    THEN IF attempt = LastAttempt THEN "raise" ELSE "retry"
    ELSE IF o.status = 429 \/ (500 <= o.status /\ o.status < 600)
         THEN IF attempt = LastAttempt THEN "return" ELSE "retry"
         ELSE "return"

\* amo_request: what the loop body does with the outcome of attempt number
\* `attempt` (0-based): try again, raise, or return the response
amo_request(attempt, o) ==
    IF o.err
    THEN IF attempt = LastAttempt THEN "raise" ELSE "retry"
    ELSE IF o.status = 429 \/ (500 <= o.status /\ o.status < 600)
         THEN IF attempt = LastAttempt
              THEN (IF RaisesForStatus(o.status) THEN "raise" ELSE "return")
              ELSE "retry"
         ELSE "return"

\* the outcomes the environment can give an attempt that does not succeed
FailOutcomes == {Transport, Http(404), Http(429), Http(503)}

IsFailure(o) == o.err \/ ~Is2xx(o.status)

\* a call that fails is counted once, at its first attempt: a backend that is
\* down for a call may stay down through all the retries of the call
Charged(failure, attempt) == failure /\ attempt = 0

\* GET /contacts?query=q: the contacts the CRM finds for q
Matching(q) == SelectSeq(contacts, LAMBDA c : q # <<>> /\ (c.email = q \/ c.phone = q))

\* the response of a lookup the CRM serves: 204 when nothing matches
OkFind(items) == IF items = <<>> THEN Http(204) ELSE Http(200)

HasAt(s) == \E i \in 1..Len(s) : s[i] = "@"

(************************* trigger instances *******************************)
Slots == 1..MaxSlots
PushProcs == {"scheduled_sync", "sync_once"} \X Slots
PullProcs == {"scheduled_pull", "sync_pull_amocrm"} \X Slots

Free(pc) == pc \in {"idle", "done", "failed"}

PushRunning(job) == {p \in PushProcs : p[1] = job /\ ~Free(push[p].pc)}
PullRunning(job) == {p \in PullProcs : p[1] = job /\ ~Free(pull[p].pc)}

\* the free slot a new instance of the job takes
LowestFreePush(p) ==
    /\ Free(push[p].pc)
    /\ \A q \in PushProcs : (q[1] = p[1] /\ q[2] < p[2]) => ~Free(push[q].pc)

LowestFreePull(p) ==
    /\ Free(pull[p].pc)
    /\ \A q \in PullProcs : (q[1] = p[1] /\ q[2] < p[2]) => ~Free(pull[q].pc)

(***************** Push Reconciler: process_new_rows ***********************)
IdlePush ==
    [pc |-> "idle", rows |-> <<>>, idx |-> 0, qi |-> 0, attempt |-> 0,
     contact_id |-> 0, lead_id |-> 0, created |-> <<>>,
     \* history of the run
     nDeals |-> 0, nContacts |-> 0, reqRows |-> {}, wroteRows |-> {},
     afterOk |-> FALSE, callFailed |-> FALSE, failKind |-> "none", failTries |-> 0,
     log |-> <<>>, tags |-> <<>>]

\* one step of a push run as the run's history keeps it: a lookup issued
\* ("find") or answered with a contact ("found"), a contact or a deal created,
\* a deal id written
Event(idx, kind, field, q, id) ==
    [idx |-> idx, kind |-> kind, field |-> field, q |-> q, id |-> id]

\* for q in [data["email"], data["phone"]]: the next query that is not empty,
\* from position qi on; with none left, the contact is created
Resolve(r, qi) ==
    LET d == parse_row(r.rows[r.idx + 1])
    IN  IF qi = 0 /\ d.email # <<>>
        THEN [r EXCEPT !.pc = "amo_find_contact", !.qi = 0, !.attempt = 0]
        ELSE IF qi <= 1 /\ d.phone # <<>>
        THEN [r EXCEPT !.pc = "amo_find_contact", !.qi = 1, !.attempt = 0]
        ELSE [r EXCEPT !.pc = "amo_create_contact", !.qi = 2, !.attempt = 0]

\* data = parse_row(row) raised: the run ends with the ValueError
Raised(r, i) == [r EXCEPT !.pc = "failed", !.idx = i, !.failKind = "value"]

LoopMut(r, i) ==
    IF i >= Len(r.rows)
    THEN [r EXCEPT !.pc = "done", !.idx = i]
    ELSE IF parse_row(r.rows[i + 1]) = ValueError
    THEN Raised(r, i)
    ELSE Resolve([r EXCEPT !.idx = i, !.contact_id = 0, !.lead_id = 0], 0)

RECURSIVE Loop(_, _)
\* for idx, row in enumerate(rows), from index i on: rows that have a deal id
\* are skipped; the run stops at the first request of the next row without
\* one, or at a row that parse_row raises on
Loop(r, i) ==
    IF i >= Len(r.rows)
    THEN [r EXCEPT !.pc = "done", !.idx = i]
    ELSE IF parse_row(r.rows[i + 1]) = ValueError
    THEN Raised(r, i)
    ELSE IF parse_row(r.rows[i + 1]).deal_id # <<>>
         THEN Loop(r, i + 1)
         ELSE Resolve([r EXCEPT !.idx = i, !.contact_id = 0, !.lead_id = 0], 0)

Fail(r, kind, tries) ==
    [r EXCEPT !.pc = "failed", !.callFailed = TRUE, !.failKind = kind,
              !.failTries = tries]

FailKind(o) ==
    IF o.err \/ o.status = 429 \/ (500 <= o.status /\ o.status < 600)
    THEN "transient" ELSE "rejected"

\* process_new_rows starts: rows = read_rows()
process_new_rows(p) ==
    /\ runs < MaxRuns
    /\ runs' = runs + 1
    /\ \/ /\ \E rows \in {read_rows(sheet)} :
             \E r \in {[IdlePush EXCEPT !.rows = rows,
                                        !.afterOk = quiet,
                                        !.tags = [i \in 1..Len(rows) |->
                                                     Tag(sheet[i + 1])]]} :
             \E next \in {Loop(r, 0)} :
                /\ push' = [push EXCEPT ![p] = next]
                /\ quiet' = (next.pc = "done")
          /\ settled' = FALSE
          /\ UNCHANGED faults
       \/ /\ faults > 0
          /\ faults' = faults - 1
          /\ push' = [push EXCEPT ![p] = [IdlePush EXCEPT !.pc = "failed",
                                                         !.failKind = "sheet"]]
          /\ quiet' = FALSE
          /\ settled' = FALSE
    /\ UNCHANGED <<sheet, contacts, deals, nextId, pull, req, phone, made>>

scheduled_sync_mut(p) ==
    /\ p[1] = "scheduled_sync"
    /\ LowestFreePush(p)
    /\ process_new_rows(p)

\* the interval job: a firing while max_instances instances run is dropped
scheduled_sync(p) ==
    /\ p[1] = "scheduled_sync"
    /\ LowestFreePush(p)
    /\ Cardinality(PushRunning("scheduled_sync")) < max_instances
    /\ process_new_rows(p)

\* GET /sync/once: every request runs in a thread of its own
sync_once(p) ==
    /\ p[1] = "sync_once"
    /\ LowestFreePush(p)
    /\ process_new_rows(p)

\* one HTTP attempt of amo_find_contact(q)
amo_find_contact(p) ==
    \E r \in {push[p]} :
    /\ r.pc = "amo_find_contact"
    /\ \E d \in {parse_row(r.rows[r.idx + 1])} :
       \E query \in {IF r.qi = 0 THEN d.email ELSE d.phone} :
       \E q \in {IF HasAt(query) THEN query ELSE normalize_phone(query)} :
       \E items \in {Matching(q)} :
       \E field \in {IF r.qi = 0 THEN "email" ELSE "phone"} :
       \E r1 \in {[r EXCEPT !.reqRows = @ \cup {r.idx},
                        !.log = IF r.attempt = 0
                                THEN Append(@, Event(r.idx, "find", field, q, 0))
                                ELSE @]} :
        /\ \E o \in FailOutcomes \cup {OkFind(items)} :
             /\ Charged(IsFailure(o), r.attempt) => faults > 0
             /\ faults' = faults - (IF Charged(IsFailure(o), r.attempt) THEN 1 ELSE 0)
             /\ LET dec == amo_request(r.attempt, o)
                IN  push' = [push EXCEPT ![p] =
                      CASE dec = "retry" -> [r1 EXCEPT !.attempt = @ + 1]
                        [] dec = "raise" -> Fail(r1, FailKind(o), r.attempt + 1)
                        [] OTHER ->
                             IF o.status = 200 /\ items # <<>>
                             THEN [r1 EXCEPT !.contact_id = items[1].id,
                                             !.pc = "amo_create_lead",
                                             !.attempt = 0,
                                             !.log = Append(@, Event(r.idx, "found",
                                                        field, q, items[1].id))]
                             ELSE Resolve([r1 EXCEPT !.callFailed =
                                              @ \/ IsFailure(o)], r.qi + 1)]
        /\ quiet' = FALSE
        /\ settled' = FALSE
        /\ UNCHANGED <<sheet, contacts, deals, nextId, pull, req, phone, runs, made>>

\* one HTTP attempt of amo_create_contact(name, phone, email)
amo_create_contact(p) ==
    \E r \in {push[p]} :
    /\ r.pc = "amo_create_contact"
    /\ \E d \in {parse_row(r.rows[r.idx + 1])} :
       \E r1 \in {[r EXCEPT !.reqRows = @ \cup {r.idx}]} :
       \E c \in {[id |-> nextId, name |-> d.name,
                  phone |-> normalize_phone(d.phone), email |-> d.email]} :
        /\ \E o \in FailOutcomes \cup {Http(200)} :
             /\ Charged(IsFailure(o), r.attempt) => faults > 0
             /\ faults' = faults - (IF Charged(IsFailure(o), r.attempt) THEN 1 ELSE 0)
             /\ LET dec == amo_request(r.attempt, o)
                IN  IF dec = "return" /\ ~RaisesForStatus(o.status)
                    THEN /\ contacts' = Append(contacts, c)
                         /\ nextId' = nextId + 1
                         /\ push' = [push EXCEPT ![p] =
                               [r1 EXCEPT !.contact_id = c.id,
                                          !.nContacts = @ + 1,
                                          !.log = Append(@, Event(r.idx,
                                                     "create_contact", "", <<>>, c.id)),
                                          !.pc = "amo_create_lead",
                                          !.attempt = 0]]
                    ELSE /\ UNCHANGED <<contacts, nextId>>
                         /\ push' = [push EXCEPT ![p] =
                               IF dec = "retry"
                               THEN [r1 EXCEPT !.attempt = @ + 1]
                               ELSE Fail(r1, FailKind(o), r.attempt + 1)]
        /\ quiet' = FALSE
        /\ settled' = FALSE
        /\ UNCHANGED <<sheet, deals, pull, req, phone, runs, made>>

\* amo_create_lead(price, contact_id): one httpx.post, no amo_request
amo_create_lead(p) ==
    \E r \in {push[p]} :
    /\ r.pc = "amo_create_lead"
    /\ \E d \in {parse_row(r.rows[r.idx + 1])} :
       \E r1 \in {[r EXCEPT !.reqRows = @ \cup {r.idx}]} :
       \E price \in {IF isdigit(Str(d.budget)) THEN ToInt(Str(d.budget)) ELSE 0} :
       \E L \in {[id |-> nextId, price |-> price, status_id |-> AMO_STATUS_ID,
                  pipeline_id |-> AMO_PIPELINE_ID, contacts |-> <<r.contact_id>>]} :
        /\ \E o \in FailOutcomes \cup {Http(200)} :
             /\ Charged(IsFailure(o), r.attempt) => faults > 0
             /\ faults' = faults - (IF Charged(IsFailure(o), r.attempt) THEN 1 ELSE 0)
             /\ IF o.err \/ RaisesForStatus(o.status)
                THEN /\ push' = [push EXCEPT ![p] = Fail(r1, FailKind(o), 1)]
                     /\ UNCHANGED <<deals, nextId, made>>
                ELSE /\ deals' = Append(deals, L)
                     /\ nextId' = nextId + 1
                     /\ made' = Append(made, r.idx)
                     /\ push' = [push EXCEPT ![p] =
                           [r1 EXCEPT !.lead_id = L.id, !.nDeals = @ + 1,
                                      !.log = Append(@, Event(r.idx, "create_lead",
                                                                "", <<>>, L.id)),
                                      !.pc = "write_deal_id"]]
        /\ quiet' = FALSE
        /\ settled' = FALSE
        /\ UNCHANGED <<sheet, contacts, pull, req, phone, runs>>

\* write_deal_id(idx, lead_id), created.append(...), and on to the next row
PushWriteBack(p) ==
    \E r \in {push[p]} :
        /\ r.pc = "write_deal_id"
        /\ \/ /\ sheet' = write_deal_id(sheet, r.idx, r.lead_id)
              /\ \E r1 \in {[r EXCEPT !.wroteRows = @ \cup {r.idx},
                                      !.log = Append(@, Event(r.idx, "write", "E",
                                                              <<>>, r.lead_id)),
                                      !.created = Append(@,
                                          [row |-> r.idx + 2, lead_id |-> r.lead_id,
                                           contact_id |-> r.contact_id])]} :
                 \E next \in {Loop(r1, r.idx + 1)} :
                    /\ push' = [push EXCEPT ![p] = next]
                    /\ quiet' = (next.pc = "done")
              /\ settled' = FALSE
              /\ UNCHANGED faults
           \/ /\ faults > 0
              /\ faults' = faults - 1
              /\ push' = [push EXCEPT ![p] =
                    [r EXCEPT !.pc = "failed", !.failKind = "sheet"]]
              /\ quiet' = FALSE
              /\ settled' = FALSE
              /\ UNCHANGED sheet
        /\ UNCHANGED <<contacts, deals, nextId, pull, req, phone, runs, made>>

PushStep(p) ==
    \/ amo_find_contact(p)
    \/ amo_create_contact(p)
    \/ amo_create_lead(p)
    \/ PushWriteBack(p)

(***************** Pull Reconciler: sync_from_amocrm ***********************)
\* GET /leads/pipelines/{id}/statuses: the labels of the pipeline's statuses
StatusMap == [x \in {AMO_STATUS_ID} |-> <<"N", "e", "w">>]

Min(a, b) == IF a < b THEN a ELSE b

PageSize == Min(Limit, PageCap)

PipelineDeals(pipeline_id) == SelectSeq(deals, LAMBDA L : L.pipeline_id = pipeline_id)

\* GET /leads?filter[pipeline_id]&with=contacts&page&limit: the page's deals
Page(pipeline_id, page) ==
    LET all == PipelineDeals(pipeline_id)
    IN  SubSeq(all, (page - 1) * PageSize + 1, Min(page * PageSize, Len(all)))

\* the response has _links.next
HasNext(pipeline_id, page) == page * PageSize < Len(PipelineDeals(pipeline_id))

IdlePull ==
    [pc |-> "idle", lead_to_rowidx |-> <<>>, status_map |-> <<>>, leads |-> <<>>,
     page |-> 1, attempt |-> 0, contact_ids |-> <<>>, ci |-> 0,
     contacts_map |-> <<>>, updates |-> <<>>, appends |-> <<>>,
     chunk_size |-> DefaultChunk, i |-> 0, updated |-> 0, inserted |-> 0,
     fetched |-> 0,
     \* history of the run
     rows0 |-> <<>>, sheet0 |-> <<>>, sent |-> 0, subs |-> 0, failedAt |-> "none",
     log |-> <<>>, afterOk |-> FALSE]

\* the rows whose cell E is not empty, as (trimmed cell, index) pairs
RefRows(rows) == {i \in 0..(Len(rows) - 1) : Len(rows[i + 1]) > 4 /\ rows[i + 1][5] # <<>>}

Max(S) == CHOOSE x \in S : \A y \in S : y <= x

lead_to_rowidx_D(rows) ==
    LET refs == {i \in 0..(Len(rows) - 1) : Len(rows[i + 1]) > 3 /\ rows[i + 1][4] # <<>>}
    IN  [k \in {Strip(rows[i + 1][4]) : i \in refs} |->
            Max({i \in refs : Strip(rows[i + 1][4]) = k})]

\* lead_to_rowidx[str(row[4]).strip()] = i, in row order: the last row wins
lead_to_rowidx(rows) ==
    [k \in {Strip(rows[i + 1][5]) : i \in RefRows(rows)} |->
        Max({i \in RefRows(rows) : Strip(rows[i + 1][5]) = k})]

LastContact(L) == IF L.contacts # <<>> THEN L.contacts[Len(L.contacts)] ELSE 0

\* cid = cs[0].get("id") of the deal's embedded contacts, None (0) without one
FirstContact(L) == IF L.contacts # <<>> THEN L.contacts[1] ELSE 0

\* contact_ids: the first contact of every deal that has one, in deal order
ContactIdsOf(leads) ==
    LET cids == [k \in 1..Len(leads) |-> FirstContact(leads[k])]
    IN  SelectSeq(cids, LAMBDA c : c # 0)

\* what fetch_contacts_by_ids keeps of a contact the CRM returns
ContactDetails(c) ==
    [name |-> c.name, phone |-> normalize_phone(c.phone), email |-> c.email]

NoContact == [name |-> <<>>, phone |-> <<>>, email |-> <<>>]

\* the price of a deal that has none
NoPrice == 0 - 1

\* price = L.get("price") or 0
PriceOr0(price) == IF price = NoPrice \/ price = 0 THEN 0 ELSE price

\* [name, phone, email, price, lead_id, status_name]; the sheet shows a number
\* written RAW as its decimal text
RowValues(L, status_map, contacts_map) ==
    LET cid == FirstContact(L)
        c == IF cid \in DOMAIN contacts_map THEN contacts_map[cid] ELSE NoContact
        status_name == IF L.status_id \in DOMAIN status_map
                       THEN status_map[L.status_id] ELSE Str(L.status_id)
    IN  <<c.name, c.phone, c.email, Str(PriceOr0(L.price)), Str(L.id), status_name>>

RECURSIVE PlanMut(_, _)
PlanMut(r, k) ==
    IF k > Len(r.leads) THEN r
    ELSE LET L == r.leads[k]
             lead_id == Str(L.id)
             row_values == RowValues(L, r.status_map, r.contacts_map)
         IN  IF lead_id \in DOMAIN r.lead_to_rowidx
             THEN PlanMut([r EXCEPT !.updates = Append(@, <<r.lead_to_rowidx[lead_id], row_values>>),
                                    !.appends = Append(@, row_values),
                                    !.updated = @ + 1], k + 1)
             ELSE PlanMut([r EXCEPT !.appends = Append(@, row_values),
                                    !.inserted = @ + 1], k + 1)

RECURSIVE Plan(_, _)
\* for L in leads, from the k-th on: queue an update or an append
Plan(r, k) ==
    IF k > Len(r.leads) THEN r
    ELSE LET L == r.leads[k]
             lead_id == Str(L.id)
             row_values == RowValues(L, r.status_map, r.contacts_map)
         IN  IF lead_id \in DOMAIN r.lead_to_rowidx
             THEN Plan([r EXCEPT !.updates = Append(@, <<r.lead_to_rowidx[lead_id], row_values>>),
                                 !.updated = @ + 1], k + 1)
             ELSE Plan([r EXCEPT !.appends = Append(@, row_values),
                                 !.inserted = @ + 1], k + 1)

EnterCommitMut(r) ==
    IF r.appends # <<>>
    THEN [r EXCEPT !.pc = "commit_appends", !.i = 0, !.attempt = 0, !.subs = 0]
    ELSE IF r.updates # <<>>
    THEN [r EXCEPT !.pc = "commit_updates", !.i = 0, !.attempt = 0, !.subs = 0]
    ELSE [r EXCEPT !.pc = "done"]

\* commit_sheet_changes starts: the first chunk to submit, if any
EnterCommit(r) ==
    IF r.updates # <<>>
    THEN [r EXCEPT !.pc = "commit_updates", !.i = 0, !.attempt = 0, !.subs = 0]
    ELSE IF r.appends # <<>>
    THEN [r EXCEPT !.pc = "commit_appends", !.i = 0, !.attempt = 0, !.subs = 0]
    ELSE [r EXCEPT !.pc = "done"]

\* sync_from_amocrm once the contacts are known: plan, then commit
PlanAndCommit(r) ==
    EnterCommit([Plan(r, 1) EXCEPT !.fetched = Len(r.leads)])

\* sync_from_amocrm once the deals are fetched: collect the first contacts
AfterLeads(r) ==
    LET ids == ContactIdsOf(r.leads)
    IN  IF ids = <<>>
        THEN PlanAndCommit([r EXCEPT !.contact_ids = ids])
        ELSE [r EXCEPT !.contact_ids = ids, !.pc = "fetch_contacts_by_ids",
                       !.ci = 0, !.attempt = 0]

PullFailMut(r) ==
    [EnterCommit([Plan(r, 1) EXCEPT !.fetched = Len(r.leads)]) EXCEPT !.failedAt = r.pc]

\* an exception leaves sync_from_amocrm: the run is over
PullFail(r) == [r EXCEPT !.pc = "failed", !.failedAt = r.pc]

\* sync_from_amocrm starts: rows = read_sheet_all(), lead_to_rowidx
sync_from_amocrm(p) ==
    /\ runs < MaxRuns
    /\ runs' = runs + 1
    /\ \/ /\ pull' = [pull EXCEPT ![p] =
                [IdlePull EXCEPT !.pc = "get_status_map",
                                 !.lead_to_rowidx = lead_to_rowidx(read_rows(sheet)),
                                 !.rows0 = read_rows(sheet),
                                 !.sheet0 = sheet,
                                 !.afterOk = settled]]
          /\ UNCHANGED faults
       \/ /\ faults > 0
          /\ faults' = faults - 1
          /\ pull' = [pull EXCEPT ![p] =
                [IdlePull EXCEPT !.pc = "failed", !.failedAt = "read_sheet_all",
                                 !.sheet0 = sheet]]
    /\ settled' = FALSE
    /\ UNCHANGED <<sheet, contacts, deals, nextId, push, req, phone, made, quiet>>

\* the interval job: a firing while max_instances instances run is dropped
scheduled_pull(p) ==
    /\ p[1] = "scheduled_pull"
    /\ LowestFreePull(p)
    /\ Cardinality(PullRunning("scheduled_pull")) < max_instances
    /\ sync_from_amocrm(p)

\* GET /sync/pull_amocrm: every request runs in a thread of its own
sync_pull_amocrm(p) ==
    /\ p[1] = "sync_pull_amocrm"
    /\ LowestFreePull(p)
    /\ sync_from_amocrm(p)

\* one HTTP attempt of get_status_map(AMO_PIPELINE_ID)
get_status_map(p) ==
    LET r == pull[p]
    IN  /\ r.pc = "get_status_map"
        /\ \E o \in FailOutcomes \cup {Http(200)} :
             /\ Charged(IsFailure(o), r.attempt) => faults > 0
             /\ faults' = faults - (IF Charged(IsFailure(o), r.attempt) THEN 1 ELSE 0)
             /\ LET dec == amo_request(r.attempt, o)
                IN  pull' = [pull EXCEPT ![p] =
                      IF dec = "retry" THEN [r EXCEPT !.attempt = @ + 1]
                      ELSE IF dec = "raise" \/ RaisesForStatus(o.status)
                      THEN PullFail(r)
                      ELSE [r EXCEPT !.status_map = StatusMap,
                                     !.pc = "fetch_leads_with_contacts",
                                     !.page = 1, !.attempt = 0]]
        /\ settled' = (pull'[p].pc = "done")
        /\ UNCHANGED <<sheet, contacts, deals, nextId, push, req, phone, runs, made, quiet>>

\* one HTTP attempt of the current page of fetch_leads_with_contacts
fetch_leads_with_contacts(p) ==
    LET r == pull[p]
        batch == Page(AMO_PIPELINE_ID, r.page)
    IN  /\ r.pc = "fetch_leads_with_contacts"
        /\ \E o \in FailOutcomes \cup {Http(200)} :
             /\ Charged(IsFailure(o), r.attempt) => faults > 0
             /\ faults' = faults - (IF Charged(IsFailure(o), r.attempt) THEN 1 ELSE 0)
             /\ LET dec == amo_request(r.attempt, o)
                IN  pull' = [pull EXCEPT ![p] =
                      IF dec = "retry" THEN [r EXCEPT !.attempt = @ + 1]
                      ELSE IF dec = "raise" \/ RaisesForStatus(o.status)
                      THEN PullFail(r)
                      ELSE IF batch = <<>>
                      THEN AfterLeads(r)
                      ELSE IF ~HasNext(AMO_PIPELINE_ID, r.page)
                      THEN AfterLeads([r EXCEPT !.leads = @ \o batch])
                      ELSE [r EXCEPT !.leads = @ \o batch, !.page = @ + 1,
                                     !.attempt = 0]]
        /\ settled' = (pull'[p].pc = "done")
        /\ UNCHANGED <<sheet, contacts, deals, nextId, push, req, phone, runs, made, quiet>>

\* GET /contacts?ids[]=...: the contacts of the chunk that exist, by id
FetchedContacts(chunk, out) ==
    LET got == {k \in 1..Len(contacts) : \E j \in 1..Len(chunk) : chunk[j] = contacts[k].id}
        ids == {contacts[k].id : k \in got} \cup DOMAIN out
    IN  [id \in ids |->
           IF \E k \in got : contacts[k].id = id
           THEN ContactDetails(contacts[CHOOSE k \in got : contacts[k].id = id])
           ELSE out[id]]

\* one HTTP attempt of the current chunk of fetch_contacts_by_ids
fetch_contacts_by_ids(p) ==
    LET r == pull[p]
        chunk == SubSeq(r.contact_ids, r.ci + 1, Min(r.ci + IdsChunk, Len(r.contact_ids)))
    IN  /\ r.pc = "fetch_contacts_by_ids"
        /\ \E o \in FailOutcomes \cup {Http(200)} :
             /\ Charged(IsFailure(o), r.attempt) => faults > 0
             /\ faults' = faults - (IF Charged(IsFailure(o), r.attempt) THEN 1 ELSE 0)
             /\ LET dec == amo_request(r.attempt, o)
                    out == FetchedContacts(chunk, r.contacts_map)
                IN  pull' = [pull EXCEPT ![p] =
                      IF dec = "retry" THEN [r EXCEPT !.attempt = @ + 1]
                      ELSE IF dec = "raise" \/ RaisesForStatus(o.status)
                      THEN PullFail(r)
                      ELSE IF r.ci + IdsChunk >= Len(r.contact_ids)
                      THEN PlanAndCommit([r EXCEPT !.contacts_map = out])
                      ELSE [r EXCEPT !.contacts_map = out, !.ci = @ + IdsChunk,
                                     !.attempt = 0]]
        /\ settled' = (pull'[p].pc = "done")
        /\ UNCHANGED <<sheet, contacts, deals, nextId, push, req, phone, runs, made, quiet>>

(***************** Batch Commit Planner: commit_sheet_changes **************)
\* values.update / batchUpdate of A{r}:F{r}
\* the cells right of the written ones keep what they hold
SetRow(sh, r, values) ==
    LET old == Pad(sh, r, <<>>)[r]
    IN  [Pad(sh, r, <<>>) EXCEPT ![r] = values \o SubSeq(old, Len(values) + 1, Len(old))]

UpdateDataMut(chunk) ==
    [k \in 1..Len(chunk) |->
        [row |-> chunk[k][1] + 1, first |-> "A", last |-> "F", values |-> chunk[k][2]]]

\* start_row = row_index + 2; data.append({"range": f"A{start_row}:F{start_row}",
\* "values": [values]}) for every update of the chunk
UpdateData(chunk) ==
    [k \in 1..Len(chunk) |->
        [row |-> chunk[k][1] + 2, first |-> "A", last |-> "F", values |-> chunk[k][2]]]

RECURSIVE ApplyData(_, _)
\* batchUpdate writes the ranges of data in order
ApplyData(sh, data) ==
    IF data = <<>> THEN sh
    ELSE ApplyData(SetRow(sh, Head(data).row, Head(data).values), Tail(data))

\* batchUpdate with one range per update of the chunk, in chunk order
ApplyUpdates(sh, chunk) == ApplyData(sh, UpdateData(chunk))

\* the last sheet row with content in A..F; the header is such a row
LastContent(sh) == Max({n \in 1..Len(sh) : AF(sh[n]) # <<>>})

ApplyAppendTop(sh, values_batch) == <<sh[1]>> \o values_batch \o Tail(sh)

\* values.append to A:F with INSERT_ROWS: new rows are inserted after the last
\* row with content, what is below moves down
ApplyAppend(sh, values_batch) ==
    LET last == LastContent(sh)
    IN  TrimRows(SubSeq(sh, 1, last) \o values_batch \o SubSeq(sh, last + 1, Len(sh)))

\* set_row_values: values.update of A{row+2}:F{row+2}; no route and no job
\* calls it
set_row_values(sh, row_index_zero_based, values) ==
    SetRow(sh, row_index_zero_based + 2, values)

\* append_row: values.append of one row; no route and no job calls it
append_row(sh, values) == ApplyAppend(sh, <<values>>)

\* what a chunk submission can end in
SubmitOutcomes == {"ok", "RATE_LIMIT_EXCEEDED", "error"}

\* one execute() of the commit as the run's history keeps it
Submission(kind, data, o) == [kind |-> kind, data |-> data, o |-> o]

RateRetryMut(attempt, o) == o = "RATE_LIMIT_EXCEEDED" /\ attempt <= MaxRateRetries

RateRetryAny(attempt, o) == o # "ok" /\ attempt < MaxRateRetries

\* except HttpError: "RATE_LIMIT_EXCEEDED" in str(e) and attempt < 5
RateRetry(attempt, o) == o = "RATE_LIMIT_EXCEEDED" /\ attempt < MaxRateRetries

\* one submission of the current update chunk
commit_update_chunk(p) ==
    LET r == pull[p]
        chunk == SubSeq(r.updates, r.i + 1, Min(r.i + r.chunk_size, Len(r.updates)))
    IN  /\ r.pc = "commit_updates"
        /\ \E o \in SubmitOutcomes :
             LET r1 == [r EXCEPT !.sent = @ + 1, !.subs = @ + 1,
                                 !.log = Append(@, Submission("update", UpdateData(chunk), o))]
             IN
             /\ Charged(o # "ok", r.attempt) => faults > 0
             /\ faults' = faults - (IF Charged(o # "ok", r.attempt) THEN 1 ELSE 0)
             /\ IF o = "ok"
                THEN /\ sheet' = ApplyUpdates(sheet, chunk)
                     /\ quiet' = FALSE
                     /\ pull' = [pull EXCEPT ![p] =
                           IF r.i + r.chunk_size < Len(r.updates)
                           THEN [r1 EXCEPT !.i = @ + r.chunk_size, !.attempt = 0,
                                           !.subs = 0]
                           ELSE IF r.appends # <<>>
                           THEN [r1 EXCEPT !.pc = "commit_appends", !.i = 0,
                                           !.attempt = 0, !.subs = 0]
                           ELSE [r1 EXCEPT !.pc = "done"]]
                     /\ settled' = (pull'[p].pc = "done")
                ELSE /\ pull' = [pull EXCEPT ![p] =
                           IF RateRetry(r.attempt, o)
                           THEN [r1 EXCEPT !.attempt = @ + 1]
                           ELSE PullFail(r1)]
                     /\ UNCHANGED <<sheet, quiet>>
                     /\ settled' = FALSE
        /\ UNCHANGED <<contacts, deals, nextId, push, req, phone, runs, made>>

\* one submission of the current append chunk
commit_append_chunk(p) ==
    LET r == pull[p]
        values_batch == SubSeq(r.appends, r.i + 1, Min(r.i + AppendChunk, Len(r.appends)))
    IN  /\ r.pc = "commit_appends"
        /\ \E o \in SubmitOutcomes :
             LET r1 == [r EXCEPT !.sent = @ + 1, !.subs = @ + 1,
                                 !.log = Append(@, Submission("append", values_batch, o))]
             IN
             /\ Charged(o # "ok", r.attempt) => faults > 0
             /\ faults' = faults - (IF Charged(o # "ok", r.attempt) THEN 1 ELSE 0)
             /\ IF o = "ok"
                THEN /\ sheet' = ApplyAppend(sheet, values_batch)
                     /\ quiet' = FALSE
                     /\ pull' = [pull EXCEPT ![p] =
                           IF r.i + AppendChunk < Len(r.appends)
                           THEN [r1 EXCEPT !.i = @ + AppendChunk, !.attempt = 0,
                                           !.subs = 0]
                           ELSE [r1 EXCEPT !.pc = "done"]]
                     /\ settled' = (pull'[p].pc = "done")
                ELSE /\ pull' = [pull EXCEPT ![p] =
                           IF RateRetry(r.attempt, o)
                           THEN [r1 EXCEPT !.attempt = @ + 1]
                           ELSE PullFail(r1)]
                     /\ UNCHANGED <<sheet, quiet>>
                     /\ settled' = FALSE
        /\ UNCHANGED <<contacts, deals, nextId, push, req, phone, runs, made>>

PullStep(p) ==
    \/ get_status_map(p)
    \/ fetch_leads_with_contacts(p)
    \/ fetch_contacts_by_ids(p)
    \/ commit_update_chunk(p)
    \/ commit_append_chunk(p)

(********************* stand-alone amo_request call ************************)
ReqOutcomes == FailOutcomes \cup {Http(200), Http(204), Http(500), Http(599)}

NewCall == [state |-> "calling", attempt |-> 0, trace |-> <<>>]

\* a caller enters amo_request
AmoRequestCall ==
    /\ req.state \in {"returned", "raised"}
    /\ req' = NewCall
    /\ UNCHANGED <<sheet, contacts, deals, nextId, push, pull, faults, runs, made, quiet,
                 settled, phone>>

\* one pass of the loop of amo_request: httpx.request and what follows it
AmoRequestAttempt ==
    /\ req.state = "calling"
    /\ \E o \in ReqOutcomes :
         LET dec == amo_request(req.attempt, o)
         IN  req' = [state |-> CASE dec = "retry" -> "calling"
                                 [] dec = "raise" -> "raised"
                                 [] OTHER -> "returned",
                     attempt |-> IF dec = "retry" THEN req.attempt + 1 ELSE req.attempt,
                     trace |-> Append(req.trace, o)]
    /\ UNCHANGED <<sheet, contacts, deals, nextId, push, pull, faults, runs, made, quiet,
                 settled, phone>>

(******************** normalize_phone, called on its own *******************)
NoPhone == [stage |-> 0, raw |-> <<>>, once |-> <<>>, twice |-> <<>>]

\* once = normalize_phone(raw)
NormalizeOnce ==
    /\ phone.stage = 0
    /\ phone' = [phone EXCEPT !.stage = 1, !.once = normalize_phone(phone.raw)]
    /\ UNCHANGED <<sheet, contacts, deals, nextId, push, pull, req, faults, runs, made,
                   quiet, settled>>

\* twice = normalize_phone(once)
NormalizeAgain ==
    /\ phone.stage = 1
    /\ phone' = [phone EXCEPT !.stage = 2, !.twice = normalize_phone(phone.once)]
    /\ UNCHANGED <<sheet, contacts, deals, nextId, push, pull, req, faults, runs, made,
                   quiet, settled>>

(***************************** initial data ********************************)
\* phone numbers as people type them: a lead, then up to MaxDigits digits in
\* groups of three with a separator between the groups
PhoneLeads == {<<>>, <<"8">>, <<"7">>, <<"+", "7">>, <<"8", " ", "(">>, <<"a">>}

PhoneSeps == {<<>>, <<"-">>, <<")", " ">>}

Filler(n) == [k \in 1..n |-> Digits[(k % 10) + 1]]

RECURSIVE Spread(_, _)
Spread(d, sep) ==
    IF Len(d) <= 3 THEN d
    ELSE SubSeq(d, 1, 3) \o sep \o Spread(SubSeq(d, 4, Len(d)), sep)

PhoneInputs ==
    {lead \o Spread(Filler(n), sep) :
        lead \in PhoneLeads, n \in 0..MaxDigits, sep \in PhoneSeps}

Email1 == <<"a", "@", "b">>
Phone1 == <<"5", "-", "5">>
Email2 == <<"b", "1">>

\* no deal reference: four cells, and a short row
RowNew == <<<<"A">>, Phone1, Email1, <<"1", "0">>>>
RowShort == <<<<"B">>, Phone1>>
\* an email typed without its @, a budget that is no number, a deal reference
\* of white space only
RowBlankRef == <<<<"C">>, <<>>, Email2, <<"x">>, <<" ", "\n">>>>
\* linked to deal 7, the reference typed with white space around it
RowLinked == <<<<"D">>, <<>>, <<>>, <<"5">>, <<" ", "7", "\r">>, <<"N", "e", "w">>>>
\* a budget that str.isdigit() takes for digits and int() does not
RowBadBudget == <<<<"F">>, <<>>, Email2, <<"²">>>>
\* linked to deal 8, the budget behind a separator that str.strip() drops and
\* int() does not
RowBadLinked == <<<<"G">>, <<>>, <<>>, <<"", "5">>, <<"8">>>>
\* linked to deal 8
RowLinked8 == <<<<"E">>, <<>>, <<>>, <<>>, <<"8">>>>

RowPool == {RowNew, RowShort, RowBlankRef, RowLinked, RowLinked8, <<>>}

RECURSIVE SeqsUpTo(_, _)
SeqsUpTo(S, n) ==
    IF n = 0 THEN {<<>>}
    ELSE LET shorter == SeqsUpTo(S, n - 1)
         IN  shorter \cup {Append(q, x) : q \in shorter, x \in S}

Sheets == {<<Header>> \o rows : rows \in SeqsUpTo(RowPool, MaxRows)}

\* for a push run a row linked to deal 8 is what a row linked to deal 7 is
PushSheets ==
    {<<Header>> \o rows :
        rows \in SeqsUpTo((RowPool \ {RowLinked8}) \cup {RowBadBudget, RowBadLinked},
                             MaxRows)}

\* a contact made in the CRM by hand, its phone as it was typed
ContactE == [id |-> 1, name |-> <<"A">>, phone |-> <<"5", "-", "6">>, email |-> Email1]
ContactP == [id |-> 2, name |-> <<"B">>, phone |-> <<"5", "5">>, email |-> <<>>]

Deal(id, price, status_id, cs) ==
    [id |-> id, price |-> price, status_id |-> status_id,
     pipeline_id |-> AMO_PIPELINE_ID, contacts |-> cs]

Deal7 == Deal(7, 5, AMO_STATUS_ID, <<1, 2>>)
Deal8 == Deal(8, 0, 142, <<>>)
\* no price, and a contact the CRM does not return
Deal6 == Deal(6, NoPrice, AMO_STATUS_ID, <<3>>)

NoRuns ==
    /\ push = [p \in PushProcs |-> IdlePush]
    /\ pull = [p \in PullProcs |-> IdlePull]
    /\ req = NewCall
    /\ runs = 0
    /\ made = <<>>
    /\ quiet = FALSE
    /\ settled = FALSE
    /\ phone = NoPhone
    /\ nextId = 9

(*************************** specifications ********************************)
\* the push job alone, on any sheet, with backend failures
InitPush ==
    /\ sheet \in PushSheets
    /\ contacts \in {<<>>, <<ContactP>>, <<ContactE, ContactP>>}
    /\ deals = <<Deal7, Deal8>>
    /\ faults = MaxFaults
    /\ NoRuns

NextPush == \E p \in PushProcs : scheduled_sync(p) \/ PushStep(p)

SpecPush == InitPush /\ [][NextPush]_vars

\* the pull job alone, on any sheet and pipeline, with backend failures
InitPull ==
    /\ sheet \in Sheets
    /\ contacts = <<ContactE, ContactP>>
    /\ deals \in {<<>>, <<Deal8>>, <<Deal7, Deal8>>, <<Deal7, Deal8, Deal6>>}
    /\ faults = MaxFaults
    /\ NoRuns

NextPull == \E p \in PullProcs : scheduled_pull(p) \/ PullStep(p)

SpecPull == InitPull /\ [][NextPull]_vars

\* amo_request alone
InitReq ==
    /\ sheet = <<Header>>
    /\ contacts = <<>>
    /\ deals = <<>>
    /\ faults = 0
    /\ NoRuns

NextReq == AmoRequestCall \/ AmoRequestAttempt

SpecReq == InitReq /\ [][NextReq]_vars

\* the sheets in which no deal id is the reference of two rows, every row with
\* a note of its own in column G
Tagged(sh) ==
    [n \in 1..Len(sh) |->
        IF n = 1 THEN sh[n] ELSE Pad(sh[n], LastCol, <<>>) \o <<<<"g">> \o Str(n)>>]

SyncSheets ==
    {Tagged(<<Header>> \o rows) :
        rows \in {x \in SeqsUpTo({RowNew, RowLinked, <<>>}, MaxRows) :
            \A a, b \in 1..Len(x) :
                (a < b /\ parse_row(x[a]).deal_id # <<>>) =>
                    parse_row(x[a]).deal_id # parse_row(x[b]).deal_id}}

\* the two interval jobs side by side: two runs are left to start, and the
\* backend failures are one fewer than elsewhere
InitSync ==
    /\ sheet \in SyncSheets
    /\ contacts = <<ContactE>>
    /\ deals = <<Deal7, Deal8>>
    /\ faults = MaxFaults - 1
    /\ push = [p \in PushProcs |-> IdlePush]
    /\ pull = [p \in PullProcs |-> IdlePull]
    /\ req = NewCall
    /\ runs = MaxRuns - 2
    /\ made = <<>>
    /\ quiet = FALSE
    /\ settled = FALSE
    /\ phone = NoPhone
    /\ nextId = 9

NextSync ==
    \/ \E p \in PushProcs : scheduled_sync(p) \/ PushStep(p)
    \/ \E p \in PullProcs : scheduled_pull(p) \/ PullStep(p)

SpecSync == InitSync /\ [][NextSync]_vars

\* sheets of rows without a deal reference, with one of white space only,
\* with one in place, and with a budget that parse_row raises on
LiveSheets ==
    {<<Header>> \o rows : rows \in SeqsUpTo({RowNew, RowBlankRef, RowLinked, RowBadBudget, RowBadLinked},
                             MaxRows)}

\* the push job as the scheduler runs it: the interval keeps firing and a run
\* that has started goes on to its next request or write; the backend failures
\* are fewer than the runs that can start
InitLive ==
    /\ sheet \in LiveSheets
    /\ contacts = <<ContactE, ContactP>>
    /\ deals = <<Deal7, Deal8>>
    /\ faults = MaxFaults - 1
    /\ NoRuns

SpecLive ==
    /\ InitLive
    /\ [][NextPush]_vars
    /\ WF_vars(\E p \in PushProcs : scheduled_sync(p))
    /\ WF_vars(\E p \in PushProcs : PushStep(p))

\* normalize_phone alone, on any phone number
InitPhone ==
    /\ sheet = <<Header>>
    /\ contacts = <<>>
    /\ deals = <<>>
    /\ faults = 0
    /\ push = [p \in PushProcs |-> IdlePush]
    /\ pull = [p \in PullProcs |-> IdlePull]
    /\ req = NewCall
    /\ runs = 0
    /\ made = <<>>
    /\ quiet = FALSE
    /\ settled = FALSE
    /\ nextId = 9
    /\ \E x \in PhoneInputs : phone = [NoPhone EXCEPT !.raw = x]

NextPhone == NormalizeOnce \/ NormalizeAgain

SpecPhone == InitPhone /\ [][NextPhone]_vars

\* set_row_values and append_row: the two writers of the sheet that no route
\* and no job calls, as a caller of the module can use them
WriterValues == {AF(RowNew), AF(RowLinked)}

\* set_row_values(row_index_zero_based, values): one values.update, which
\* writes the row or raises
call_set_row_values ==
    /\ \E i \in 0..(MaxRows - 1), values \in WriterValues :
          \/ /\ sheet' = set_row_values(sheet, i, values)
             /\ UNCHANGED faults
          \/ /\ faults > 0
             /\ faults' = faults - 1
             /\ UNCHANGED sheet
    /\ UNCHANGED <<contacts, deals, nextId, push, pull, req, runs, made, quiet,
                   settled, phone>>

\* append_row(values): one values.append, which adds the row or raises
call_append_row ==
    /\ Len(sheet) <= MaxRows + 1
    /\ \E values \in WriterValues :
          \/ /\ sheet' = append_row(sheet, values)
             /\ UNCHANGED faults
          \/ /\ faults > 0
             /\ faults' = faults - 1
             /\ UNCHANGED sheet
    /\ UNCHANGED <<contacts, deals, nextId, push, pull, req, runs, made, quiet,
                   settled, phone>>

InitWriters ==
    /\ sheet \in SyncSheets
    /\ contacts = <<ContactE>>
    /\ deals = <<Deal7, Deal8>>
    /\ faults = MaxFaults
    /\ NoRuns

NextWriters == call_set_row_values \/ call_append_row

SpecWriters == InitWriters /\ [][NextWriters]_vars

\* commit_sheet_changes alone, entered with any plan and chunk size
Values(x) == <<<<"V">>, <<>>, <<>>, <<"0">>, Str(x), <<"N", "e", "w">>>>

UpdatePlans ==
    {<<>>, <<<<0, Values(7)>>>>, <<<<1, Values(7)>>, <<0, Values(8)>>>>,
     <<<<0, Values(6)>>, <<1, Values(7)>>, <<2, Values(8)>>>>,
     <<<<0, Values(6)>>, <<1, Values(7)>>, <<2, Values(8)>>, <<3, Values(9)>>,
       <<4, Values(10)>>>>}

AppendPlans == {<<>>, <<Values(10)>>, <<Values(10), Values(11)>>}

\* one row more than an append batch holds
LongAppendPlan == [k \in 1..(AppendChunk + 1) |-> Values(k)]

\* the arguments of commit_sheet_changes: every short plan with every chunk
\* size, and the long append plan after no update and after three update chunks
CommitArgs ==
    (UpdatePlans \X AppendPlans \X {1, 2, DefaultChunk})
    \cup {<<<<>>, LongAppendPlan, DefaultChunk>>}
    \cup {<<u, LongAppendPlan, 2>> : u \in {x \in UpdatePlans : Len(x) = 5}}

InitCommit ==
    /\ sheet = <<Header, RowLinked, RowLinked8, RowNew>>
    /\ contacts = <<>>
    /\ deals = <<>>
    /\ faults = MaxFaults
    /\ req = NewCall
    /\ runs = 1
    /\ made = <<>>
    /\ quiet = FALSE
    /\ settled = FALSE
    /\ phone = NoPhone
    /\ nextId = 9
    /\ push = [p \in PushProcs |-> IdlePush]
    /\ \E args \in CommitArgs :
         pull = [p \in PullProcs |->
                   IF p = <<"scheduled_pull", 1>>
                   THEN EnterCommit([IdlePull EXCEPT !.updates = args[1],
                                                     !.appends = args[2],
                                                     !.chunk_size = args[3],
                                                     !.sheet0 = sheet])
                   ELSE IdlePull]

NextCommit == \E p \in PullProcs : commit_update_chunk(p) \/ commit_append_chunk(p)

SpecCommit == InitCommit /\ [][NextCommit]_vars

\* the whole service: both interval jobs and both on-demand routes
Init ==
    /\ sheet = <<Header, RowLinked, RowShort>>
    /\ contacts = <<ContactE>>
    /\ deals = <<Deal7, Deal8>>
    /\ faults = 0
    /\ NoRuns

Next ==
    \/ \E p \in PushProcs : scheduled_sync(p) \/ sync_once(p) \/ PushStep(p)
    \/ \E p \in PullProcs : scheduled_pull(p) \/ sync_pull_amocrm(p) \/ PullStep(p)

Spec == Init /\ [][Next]_vars

(******************************* claims ************************************)
Count(seq, x) == Cardinality({k \in 1..Len(seq) : seq[k] = x})

\* the rows of a snapshot whose deal reference, trimmed, is not empty
Linked(rows) ==
    {i \in 0..(Len(rows) - 1) : Len(rows[i + 1]) > 4 /\ Strip(rows[i + 1][5]) # <<>>}

\* C1: over a failed push run and its re-runs, at most one deal is created in
\* the CRM for each sheet row.
C1_AtMostOneDealPerRow ==
    \A i \in 0..MaxRows : Count(made, i) <= 1

\* C2: a push run issues no CRM request and no sheet write for a row whose
\* trimmed deal reference is not empty in its snapshot, and does not list the
\* row in created.
C2_LinkedRowsUntouched ==
    \A p \in PushProcs : \A i \in Linked(push[p].rows) :
        /\ i \notin push[p].reqRows
        /\ i \notin push[p].wroteRows
        /\ \A k \in 1..Len(push[p].created) : push[p].created[k].row # i + 2

C2_Witness ==
    \E p \in PushProcs :
        /\ push[p].pc = "done"
        /\ \E i \in Linked(push[p].rows) : \E j \in push[p].wroteRows : i < j

\* C3: a push run that starts right after a push run completed successfully,
\* the sheet untouched in between, creates no contact and no deal, issues no
\* CRM request and returns an empty created list.
C3_SecondRunCreatesNothing ==
    \A p \in PushProcs :
        push[p].afterOk =>
            /\ push[p].nDeals = 0
            /\ push[p].nContacts = 0
            /\ push[p].reqRows = {}
            /\ push[p].created = <<>>
            /\ push[p].pc \in {"done", "failed"}

C3_Witness ==
    \E p \in PushProcs :
        /\ push[p].afterOk
        /\ push[p].pc = "done"
        /\ made # <<>>
        /\ runs = 2

InFlightPush == {p \in PushProcs : ~Free(push[p].pc)}
InFlightPull == {p \in PullProcs : ~Free(pull[p].pc)}

\* C4 as stated: at most one push run and at most one pull run is in flight,
\* however the runs were started.
C4_OneRunPerReconciler ==
    /\ Cardinality(InFlightPush) <= 1
    /\ Cardinality(InFlightPull) <= 1

\* C4 as amended: at most one run started by the scheduled_sync job and at
\* most one run started by the scheduled_pull job is in flight; the on-demand
\* routes are not limited.
C4_OneScheduledRunPerJob ==
    /\ Cardinality(PushRunning("scheduled_sync")) <= 1
    /\ Cardinality(PullRunning("scheduled_pull")) <= 1

C4_Witness ==
    /\ PushRunning("scheduled_sync") # {}
    /\ PushRunning("sync_once") # {}
    /\ \E p \in PushProcs : p[1] = "scheduled_sync" /\ Free(push[p].pc)

Planned(r) == r.pc \in {"commit_updates", "commit_appends", "done"}

\* the snapshot rows whose trimmed deal reference is the string id
RowsOf(rows, id) ==
    {i \in 0..(Len(rows) - 1) : Len(rows[i + 1]) > 4 /\ Strip(rows[i + 1][5]) = id}

\* C5: in the plan of a pull, every fetched deal whose id string is the
\* trimmed reference of a snapshot row is queued once as an update at such a
\* row and not appended; every other deal is appended once and not updated;
\* nothing else is queued.
C5_UpdateOrAppendOnce ==
    \A p \in PullProcs :
        Planned(pull[p]) =>
            LET r == pull[p]
                ups == [k \in 1..Len(r.updates) |-> r.updates[k][2][5]]
                apps == [k \in 1..Len(r.appends) |-> r.appends[k][5]]
            IN  /\ Len(r.updates) + Len(r.appends) = Len(r.leads)
                /\ \A k \in 1..Len(r.leads) :
                     LET id == Str(r.leads[k].id)
                     IN  IF RowsOf(r.rows0, id) # {}
                         THEN /\ Count(ups, id) = 1
                              /\ Count(apps, id) = 0
                              /\ \A j \in 1..Len(r.updates) :
                                   r.updates[j][2][5] = id =>
                                       r.updates[j][1] \in RowsOf(r.rows0, id)
                         ELSE /\ Count(apps, id) = 1
                              /\ Count(ups, id) = 0

C5_Witness ==
    \E p \in PullProcs :
        /\ pull[p].pc = "done"
        /\ pull[p].updates # <<>>
        /\ pull[p].appends # <<>>

FetchSteps == {"get_status_map", "fetch_leads_with_contacts", "fetch_contacts_by_ids"}

\* C6: when the status-map fetch, a page of deals or a contact batch fails,
\* the pull has sent no write and the sheet is as it was before the run.
C6_FetchFailureWritesNothing ==
    \A p \in PullProcs :
        pull[p].failedAt \in FetchSteps =>
            /\ pull[p].pc = "failed"
            /\ pull[p].sent = 0
            /\ sheet = pull[p].sheet0

C6_Witness ==
    \E p \in PullProcs :
        /\ pull[p].pc = "failed"
        /\ pull[p].failedAt = "fetch_contacts_by_ids"
        /\ Len(pull[p].leads) > PageSize

Retryable(o) == o.err \/ o.status = 429 \/ o.status \in 500..599

\* C7: a call of amo_request makes at most 5 attempts; every attempt but the
\* last one made ended in a 429, a 5xx or a transport error; a response with
\* another status is returned at once; a 5th retryable outcome raises.
C7_AtMostFiveAttempts ==
    LET n == Len(req.trace)
    IN  /\ n <= 5
        /\ \A k \in 1..(n - 1) : Retryable(req.trace[k])
        /\ (n > 0 /\ ~Retryable(req.trace[n])) => req.state = "returned"
        /\ (n > 0 /\ Retryable(req.trace[n])) =>
               req.state = (IF n = 5 THEN "raised" ELSE "calling")
        /\ req.state = "returned" => (n > 0 /\ ~Retryable(req.trace[n]))

C7_Witness ==
    /\ req.state = "raised"
    /\ Len(req.trace) = 5
    /\ req.trace[5] = Http(503)
    /\ req.trace[1] = Transport

Committing(r) == r.pc \in {"commit_updates", "commit_appends"}

\* C8 as stated: a chunk is submitted at most 5 times.
C8_AtMostFiveSubmissions ==
    \A p \in PullProcs : pull[p].subs <= 5

\* C8 as amended: a chunk is submitted at most 6 times, the first submission
\* and 5 retries after a rate-limit error; after a 6th submission the chunk
\* is not pending any more (it went through, or the error was raised).
C8_AtMostSixSubmissions ==
    \A p \in PullProcs :
        /\ pull[p].subs <= 6
        /\ Committing(pull[p]) => pull[p].subs <= 5
        /\ Committing(pull[p]) => pull[p].subs = pull[p].attempt

C8_Witness ==
    \E p \in PullProcs :
        /\ pull[p].pc = "failed"
        /\ pull[p].failedAt = "commit_appends"
        /\ pull[p].subs = 6
        /\ pull[p].sent > 6

\* C9: a push run fails on a transient backend error (429, 5xx, transport)
\* only after the failing request was attempted 5 times.
C9_PushRetriesTransient ==
    \A p \in PushProcs :
        (push[p].pc = "failed" /\ push[p].failKind = "transient") =>
            push[p].failTries = 5

\* C10: once a CRM call of a push run has failed (an error raised, or a
\* response that is no success), the run is over with an error.
C10_CallFailureAborts ==
    \A p \in PushProcs : push[p].callFailed => push[p].pc = "failed"

RECURSIVE OkData(_, _)
\* the data of the submissions of one kind that succeeded, in submission order
OkData(log, kind) ==
    IF log = <<>> THEN <<>>
    ELSE (IF Head(log).kind = kind /\ Head(log).o = "ok" THEN Head(log).data ELSE <<>>)
         \o OkData(Tail(log), kind)

HasKind(log, kind) == \E a \in 1..Len(log) : log[a].kind = kind

\* C11: within one commit every update submission, retries included, comes
\* before every append submission; an append is sent only once all updates of
\* the plan were submitted successfully; and a commit that failed in an update
\* chunk has sent no append.
C11_UpdatesBeforeAppends ==
    \A p \in PullProcs :
        LET r == pull[p]
        IN  /\ \A a, b \in 1..Len(r.log) :
                   (r.log[a].kind = "append" /\ r.log[b].kind = "update") => b < a
            /\ HasKind(r.log, "append") => Len(OkData(r.log, "update")) = Len(r.updates)
            /\ r.failedAt = "commit_updates" => ~HasKind(r.log, "append")

\* a commit that retried an update chunk after a rate limit, submitted more
\* than one update chunk and then sent an append
C11_Witness ==
    \E p \in PullProcs :
        LET r == pull[p]
        IN  /\ HasKind(r.log, "append")
            /\ \E a, b \in 1..Len(r.log) :
                   /\ a < b
                   /\ r.log[a].kind = "update" /\ r.log[a].o = "RATE_LIMIT_EXCEEDED"
                   /\ r.log[b].kind = "update" /\ r.log[b].o = "ok"
                   /\ r.log[b].data # r.log[a].data

RECURSIVE OkBatches(_, _)
\* the sizes of the batches of one kind that were submitted successfully
OkBatches(log, kind) ==
    IF log = <<>> THEN <<>>
    ELSE (IF Head(log).kind = kind /\ Head(log).o = "ok"
          THEN <<Len(Head(log).data)>> ELSE <<>>)
         \o OkBatches(Tail(log), kind)

Ceil(a, b) == (a + b - 1) \div b

\* C12: a commit that went through has submitted ceil(n / chunk_size) update
\* batches of at most chunk_size entries each, whose concatenation is the plan
\* in order with the update of row_index i addressed to A..F of sheet row
\* i + 2 (where the sheet then holds its values), and ceil(m / 500) append
\* batches of at most 500 rows each, whose concatenation is the append list.
C12_ChunkedInOrder ==
    \A p \in PullProcs :
        LET r  == pull[p]
            ub == OkBatches(r.log, "update")
            ab == OkBatches(r.log, "append")
        IN  /\ \A a \in 1..Len(r.log) :
                   Len(r.log[a].data) <= (IF r.log[a].kind = "update"
                                          THEN r.chunk_size ELSE 500)
            /\ r.pc = "done" =>
                  /\ Len(ub) = Ceil(Len(r.updates), r.chunk_size)
                  /\ Len(ab) = Ceil(Len(r.appends), 500)
                  /\ OkData(r.log, "append") = r.appends
                  /\ OkData(r.log, "update") =
                        [k \in 1..Len(r.updates) |->
                            [row |-> r.updates[k][1] + 2, first |-> "A", last |-> "F",
                             values |-> r.updates[k][2]]]
                  /\ \A k \in 1..Len(r.updates) :
                        SubSeq(sheet[r.updates[k][1] + 2], 1, 6) = r.updates[k][2]

\* a commit that went through with three update batches, the last one
\* shorter, and two append batches
C12_Witness ==
    \E p \in PullProcs :
        /\ pull[p].pc = "done"
        /\ OkBatches(pull[p].log, "update") = <<2, 2, 1>>
        /\ OkBatches(pull[p].log, "append") = <<500, 1>>

RECURSIVE Replay(_, _)
\* the sheet after the successful submissions of a history, in order
Replay(sh, log) ==
    IF log = <<>> THEN sh
    ELSE Replay(IF Head(log).o # "ok" THEN sh
                ELSE IF Head(log).kind = "update" THEN ApplyData(sh, Head(log).data)
                ELSE ApplyAppend(sh, Head(log).data),
                Tail(log))

\* C13: a submission that failed with an error other than a rate limit is
\* the last submission of its commit (the chunk is not sent again, no later
\* chunk is sent), the commit has failed, and the sheet holds what the
\* submissions that succeeded before it wrote.
C13_ErrorAbortsNoRollback ==
    \A p \in PullProcs :
        LET r == pull[p]
        IN  \A a \in 1..Len(r.log) :
               r.log[a].o = "error" =>
                  /\ a = Len(r.log)
                  /\ r.pc = "failed"
                  /\ sheet = Replay(r.sheet0, r.log)

\* a commit that failed with an error after a chunk that changed the sheet
C13_Witness ==
    \E p \in PullProcs :
        LET r == pull[p]
        IN  /\ Len(r.log) > 1
            /\ r.log[Len(r.log)].o = "error"
            /\ r.log[1].o = "ok"
            /\ r.i + Len(r.log[Len(r.log)].data) <
                  (IF r.failedAt = "commit_updates" THEN Len(r.updates) ELSE Len(r.appends))
            /\ sheet # r.sheet0

\* the contact the deal created for row idx is linked to, 0 while there is none
LinkedContact(log, idx) ==
    IF \E b \in 1..Len(log) : log[b].kind = "create_lead" /\ log[b].idx = idx
    THEN LET b == CHOOSE b \in 1..Len(log) :
                     log[b].kind = "create_lead" /\ log[b].idx = idx
             L == CHOOSE L \in {deals[k] : k \in 1..Len(deals)} : L.id = log[b].id
         IN  L.contacts[1]
    ELSE 0

\* C14: an email lookup sends the row's email as it is and a phone lookup
\* sends the row's normalized phone; once the email lookup of a row has
\* returned a contact no phone lookup is issued for the row and the row's
\* deal is linked to that contact.
C14_EmailFirstRawQueries ==
    \A p \in PushProcs :
        LET r == push[p]
        IN  \A a \in 1..Len(r.log) :
               LET e == r.log[a]
                   d == parse_row(r.rows[e.idx + 1])
               IN  /\ (e.kind = "find" /\ e.field = "email") => e.q = d.email
                   /\ (e.kind = "find" /\ e.field = "phone") =>
                         e.q = normalize_phone(d.phone)
                   /\ (e.kind = "found" /\ e.field = "email") =>
                         /\ \A b \in 1..Len(r.log) :
                               ~(r.log[b].idx = e.idx /\ r.log[b].kind = "find"
                                 /\ r.log[b].field = "phone")
                         /\ LinkedContact(r.log, e.idx) \in {0, e.id}

\* C15: what normalize_phone returns holds digits only, and normalizing it
\* again returns it unchanged.
C15_DigitsOnlyIdempotent ==
    /\ phone.stage >= 1 => \A i \in 1..Len(phone.once) : IsDigit(phone.once[i])
    /\ phone.stage = 2 => phone.twice = phone.once

\* a number of 11 digits typed with a leading 8 and separators, normalized
\* twice
C15_Witness ==
    /\ phone.stage = 2
    /\ Len(OnlyDigits(phone.raw)) = 11
    /\ Head(phone.raw) = "8"
    /\ phone.raw # OnlyDigits(phone.raw)
    /\ Head(phone.once) = "7"

\* a snapshot row without a deal reference
NoRef(row) == Len(row) < 5 \/ Strip(row[5]) = <<>>

\* the positions of the events of one kind that a history holds for row idx
At(log, idx, kinds) ==
    {a \in 1..Len(log) : log[a].idx = idx /\ log[a].kind \in kinds}

\* C16: in a push run that went through, every row without a deal reference
\* has its lookups first, then one contact creation exactly when no lookup
\* returned a contact, then one deal creation, then one write of that deal's
\* id, which column E of sheet row row_index + 2 then holds; and at any time
\* the rows before a row that had a CRM request have all been written back.
C16_RowStepsInOrder ==
    \A p \in PushProcs :
        LET r == push[p]
            Unlinked == {i \in 0..(Len(r.rows) - 1) : NoRef(r.rows[i + 1])}
        IN  /\ \A j \in r.reqRows :
                   \A i \in 0..(j - 1) : NoRef(r.rows[i + 1]) => i \in r.wroteRows
            /\ \A a \in 1..(Len(r.log) - 1) : r.log[a].idx <= r.log[a + 1].idx
            /\ r.pc = "done" =>
                  \A i \in Unlinked :
                     LET finds   == At(r.log, i, {"find", "found"})
                         founds  == At(r.log, i, {"found"})
                         creates == At(r.log, i, {"create_contact"})
                         leads   == At(r.log, i, {"create_lead"})
                         writes  == At(r.log, i, {"write"})
                     IN  /\ Cardinality(leads) = 1
                         /\ Cardinality(writes) = 1
                         /\ Cardinality(creates) = (IF founds = {} THEN 1 ELSE 0)
                         /\ \A a \in finds : \A b \in creates \cup leads : a < b
                         /\ \A a \in creates : \A b \in leads : a < b
                         /\ \A a \in leads : \A b \in writes :
                               /\ a < b
                               /\ r.log[b].id = r.log[a].id
                               /\ sheet[i + 2][5] = Str(r.log[a].id)

\* a push run that went through two rows, one with a contact found and one
\* with a contact created after a lookup that found none
C16_Witness ==
    \E p \in PushProcs :
        LET r == push[p]
        IN  /\ r.pc = "done"
            /\ Len(r.created) = 2
            /\ \E i, j \in 0..(Len(r.rows) - 1) :
                   /\ At(r.log, i, {"found"}) # {}
                   /\ At(r.log, j, {"find"}) # {}
                   /\ At(r.log, j, {"create_contact"}) # {}

\* C17: a pull run that starts right after a pull run completed successfully,
\* the CRM and the sheet untouched in between, never changes the sheet, and
\* when it completes it reports inserted = 0 and updated = fetched.
C17_PullIdempotent ==
    \A p \in PullProcs :
        LET r == pull[p]
        IN  r.afterOk =>
              /\ sheet = r.sheet0
              /\ r.pc = "done" => (r.inserted = 0 /\ r.updated = r.fetched)

\* a second pull run that completed after rewriting the rows of three deals,
\* one of which the first run had added
C17_Witness ==
    \E p \in PullProcs :
        LET r == pull[p]
        IN  /\ r.afterOk
            /\ r.pc = "done"
            /\ r.fetched = 3
            /\ OkBatches(r.log, "update") = <<3>>
            /\ Len(r.rows0) > MaxRows

\* the contact of the CRM with this id, a contact of empty strings without one
CrmContact(id) ==
    IF \E k \in 1..Len(contacts) : contacts[k].id = id
    THEN contacts[CHOOSE k \in 1..Len(contacts) : contacts[k].id = id]
    ELSE [id |-> id, name |-> <<>>, phone |-> <<>>, email |-> <<>>]

\* the row of a deal as the claim describes it
PulledRow(L) ==
    LET c == IF L.contacts = <<>> THEN CrmContact(0) ELSE CrmContact(L.contacts[1])
    IN  <<c.name, normalize_phone(c.phone), c.email,
          IF L.price = NoPrice THEN <<"0">> ELSE Str(L.price),
          Str(L.id),
          IF L.status_id = AMO_STATUS_ID THEN <<"N", "e", "w">> ELSE Str(L.status_id)>>

PlannedRows(r) ==
    {r.updates[k][2] : k \in 1..Len(r.updates)} \cup {r.appends[k] : k \in 1..Len(r.appends)}

\* C18: the row planned for a fetched deal is (name, phone, email, price,
\* deal id string, status label) with name, normalized phone and email of the
\* deal's first linked contact, empty strings when the deal has no contact or
\* the CRM does not return it, price 0 when the deal has none, and as label
\* the status map's entry or else the status id as a string; a run that went
\* through leaves this row in columns A..F of a sheet row.
C18_PulledRowShape ==
    \A p \in PullProcs :
        LET r == pull[p]
        IN  Planned(r) =>
              /\ PlannedRows(r) = {PulledRow(r.leads[k]) : k \in 1..Len(r.leads)}
              /\ r.pc = "done" =>
                    \A k \in 1..Len(r.leads) :
                       \E n \in 2..Len(sheet) :
                          /\ Len(sheet[n]) >= 6
                          /\ SubSeq(sheet[n], 1, 6) = PulledRow(r.leads[k])

\* a pull that went through with a deal that has two contacts, one that has
\* none and an unknown status, and one without price whose contact is gone
C18_Witness ==
    \E p \in PullProcs :
        LET r == pull[p]
        IN  /\ r.pc = "done"
            /\ \E a, b, c \in 1..Len(r.leads) :
                   /\ Len(r.leads[a].contacts) = 2
                   /\ r.leads[b].contacts = <<>> /\ r.leads[b].status_id # AMO_STATUS_ID
                   /\ r.leads[c].price = NoPrice
                   /\ r.leads[c].contacts # <<>>
                   /\ CrmContact(r.leads[c].contacts[1]).name = <<>>

\* the deal reference of sheet row n
Ref(n) == IF Len(AF(sheet[n])) > 4 THEN Strip(AF(sheet[n])[5]) ELSE <<>>

\* C20: no deal id is the reference of more than one sheet row.
C20_NoDealOnTwoRows ==
    \A a, b \in 2..Len(sheet) : (a < b /\ Ref(a) # <<>>) => Ref(a) # Ref(b)

\* the notes of column G, top to bottom
TagSeq(sh) == SelectSeq([n \in 1..Len(sh) |-> Tag(sh[n])], LAMBDA t : t # <<>>)

\* every row a push run has read is still at the index it was read at, and a
\* deal id the run wrote is in column E of the row it was created for
SnapshotRowsInPlace ==
    \A p \in PushProcs :
        LET r == push[p]
        IN  /\ \A i \in 1..Len(r.rows) :
                   i + 1 <= Len(sheet) /\ Tag(sheet[i + 1]) = r.tags[i]
            /\ \A k \in 1..Len(r.created) :
                   /\ Tag(sheet[r.created[k].row]) = r.tags[r.created[k].row - 1]
                   /\ Ref(r.created[k].row) = Str(r.created[k].lead_id)

\* a step changes a row with a note in column G in columns A..F at most, and
\* leaves the rows with notes in their order, none removed
RowsKeepOrder ==
    /\ TagSeq(sheet') = TagSeq(sheet)
    /\ \A n \in 2..LastContent(sheet) : Tag(sheet'[n]) = Tag(sheet[n])

\* C19: no step of a push run or a pull run removes or reorders sheet rows:
\* rows are changed in columns A..F in place and new rows come after the rows
\* with content; so while a push run and a pull run interleave, the row at a
\* snapshot index of the push run is the row that was read there, and the
\* deal id written back for index i is in column E of that row.
C19_RowIndicesStable == [][RowsKeepOrder]_vars /\ []SnapshotRowsInPlace

\* a push run wrote back a deal id for its second row, and a pull run that
\* had read the same two rows added rows below them
C19_Witness ==
    \E p \in PushProcs, q \in PullProcs :
        /\ push[p].created # <<>>
        /\ pull[q].pc = "done"
        /\ HasKind(pull[q].log, "append")
        /\ Len(pull[q].rows0) = Len(push[p].rows)
        /\ Len(push[p].rows) = 2
        /\ push[p].created[Len(push[p].created)].row = 3
        /\ Len(sheet) > 3
        /\ Ref(4) # Ref(3)

\* sheet row n is a row that read_rows returns
IsRow(n) == n <= Len(read_rows(sheet)) + 1

\* sheet row n holds a deal reference
HasRef(n) == n <= Len(sheet) /\ Ref(n) # <<>>

\* C21: with the interval job firing again and again and the backend failures
\* coming to an end, every sheet row without a deal reference gets one in the
\* end; and while no scheduled push run is in flight and runs are left to
\* start, a scheduled run that failed does not keep the next one from starting.
C21_EveryRowGetsItsDeal ==
    /\ \A n \in 2..(MaxRows + 1) : (IsRow(n) /\ ~HasRef(n)) ~> HasRef(n)
    /\ []((/\ \E p \in PushProcs : p[1] = "scheduled_sync" /\ push[p].pc = "failed"
           /\ PushRunning("scheduled_sync") = {}
           /\ runs < MaxRuns)
          => ENABLED (\E p \in PushProcs : scheduled_sync(p)))

====
